---- MODULE Spec2Model ----
(***************************************************************************)
(* CMSIS-DSP IIR filter designer: the generated coefficient headers        *)
(* (filterdata.h, iir_filter_coeffs.h), the header template                *)
(* (templates/cmsis_header_template.h) and the example code the headers    *)
(* carry (init_iir_filter, process_iir_filter).                            *)
(*                                                                         *)
(* Three specifications:                                                   *)
(*   Spec      the build of one translation unit: the template is          *)
(*             rendered, headers are #included under their include guard,  *)
(*             the coefficient array is laid out by the C array            *)
(*             initialisation;                                             *)
(*   SpecProc  the run of the example code over a rendered header;         *)
(*   SpecShare the same with two processing streams over the one           *)
(*             coefficient table, each with its own state buffer.          *)
(***************************************************************************)
EXTENDS Integers, Sequences, FiniteSets, TLC

VARIABLES
    pedantic,   \* build flag: excess initialisers are an error, not a warning
    renderArgs, \* the values given for the template's placeholders, or NoArgs
    rendered,   \* the header rendered from the template, or NoHeader
    included,   \* the #include directives processed so far, in order
    tu,         \* the translation unit: guards, macros, tables, failed
    coeffs,     \* run: the coefficient table in memory, as float32 values
    inst,       \* run: per stream, the filter instance (numStages, pState, ready)
    iirState,   \* run: per stream, the state buffer iirState[STATE_SIZE]
    beyond,     \* run: per stream, the memory that follows the state buffer
    pending,    \* run: per stream, the samples the call in progress has yet to read
    fed,        \* run: per stream, every input sample consumed so far
    out,        \* run: per stream, every output sample written so far
    blockAt,    \* run: per stream, the samples consumed before the latest call
    pc          \* run: per stream, "start" | "idle" | "run" | "fault"

buildVars == <<pedantic, renderArgs, rendered, included, tu>>
runVars == <<coeffs, inst, iirState, beyond, pending, fed, out, blockAt, pc>>
vars == <<pedantic, renderArgs, rendered, included, tu, coeffs, inst, iirState, beyond, pending, fed, out, blockAt, pc>>

----------------------------------------------------------------------------
(* Bounds of the model.                                                    *)

\* most sections a rendered header declares
MaxSections == 2
\* most #include directives one translation unit processes
MaxIncludes == 3
\* most samples the stream consumes when it runs alone
MaxSamples == 4
\* most samples each stream consumes when two streams run
MaxShared == 2

----------------------------------------------------------------------------
(* Decimal literals.  A literal such as -1.9426382780f is kept digit for   *)
(* digit: sign, integer part, and the ten decimals as two groups of five.  *)

Half == 10^5

Lit(neg, ip, fhi, flo) == [neg |-> neg, ip |-> ip, fhi |-> fhi, flo |-> flo]

\* the magnitude as a pair counted in 1e-5 and 1e-10
Mag(l) == <<l.ip * Half + l.fhi, l.flo>>

MagLess(m, n) == m[1] < n[1] \/ (m[1] = n[1] /\ m[2] < n[2])

IsZero(l) == l.ip = 0 /\ l.fhi = 0 /\ l.flo = 0

IsNeg(l) == l.neg /\ ~IsZero(l)

\* 1 + a, as a magnitude, for a literal a with |a| < 1
OnePlus(a) ==
    IF ~IsNeg(a) THEN <<(a.ip + 1) * Half + a.fhi, a.flo>>
    ELSE IF a.flo = 0 THEN <<Half - a.fhi, 0>>
    ELSE <<Half - a.fhi - 1, Half - a.flo>>

LitZero == Lit(FALSE, 0, 0, 0)

\* the section invariant on the literals: |a2| < 1 and |a1| < 1 + a2
IsStable(a1, a2) ==
    /\ MagLess(Mag(a2), <<Half, 0>>)
    /\ MagLess(Mag(a1), OnePlus(a2))

----------------------------------------------------------------------------
(* The shipped headers.                                                    *)

Filterdata_IIR_NUM_SECTIONS == 2

\* (variant) the state size of the direct form I: 4 per section
Filterdata_StateSizeDF1 == Filterdata_IIR_NUM_SECTIONS * 4

Filterdata_IIR_STATE_SIZE == 4

\* (variant) the last coefficient is missing from the list
FilterdataCoeffsShort ==
    << Lit(FALSE, 0, 0, 585),
       Lit(FALSE, 0, 0, 1169),
       Lit(FALSE, 0, 0, 585),
       Lit(TRUE, 1, 94263, 82780),
       Lit(FALSE, 0, 94359, 72571),
       Lit(FALSE, 1, 0, 0),
       Lit(FALSE, 2, 0, 0),
       Lit(FALSE, 1, 0, 0),
       Lit(TRUE, 1, 97526, 96753) >>

FilterdataCoeffs ==
    << Lit(FALSE, 0, 0, 585),
       Lit(FALSE, 0, 0, 1169),
       Lit(FALSE, 0, 0, 585),
       Lit(TRUE, 1, 94263, 82780),
       Lit(FALSE, 0, 94359, 72571),
       Lit(FALSE, 1, 0, 0),
       Lit(FALSE, 2, 0, 0),
       Lit(FALSE, 1, 0, 0),
       Lit(TRUE, 1, 97526, 96753),
       Lit(FALSE, 0, 97624, 48072) >>

Filterdata_GUARD == "IIR_FILTER_COEFFS_H"

FilterdataH ==
    [ file |-> "filterdata.h",
      guard |-> Filterdata_GUARD,
      sectionsMacro |-> "IIR_NUM_SECTIONS",
      stateMacro |-> "IIR_STATE_SIZE",
      numSections |-> Filterdata_IIR_NUM_SECTIONS,
      stateSize |-> Filterdata_IIR_STATE_SIZE,
      tableName |-> "iirCoeffs_DF2T",
      perSection |-> 5,
      init |-> FilterdataCoeffs ]

IirFilterCoeffs_IIR_NUM_SECTIONS == 2
IirFilterCoeffs_IIR_STATE_SIZE == 4

\* (variant) section 0 with a1 = -(1 + a2): its poles on the unit circle
IirFilterCoeffsOnCircle ==
    << Lit(FALSE, 0, 482, 43431),
       Lit(FALSE, 0, 964, 86863),
       Lit(FALSE, 0, 482, 43431),
       Lit(TRUE, 1, 29614, 3430),
       Lit(FALSE, 0, 29614, 3430),
       Lit(FALSE, 1, 0, 0),
       Lit(FALSE, 2, 0, 0),
       Lit(FALSE, 1, 0, 0),
       Lit(TRUE, 1, 32091, 34340),
       Lit(FALSE, 0, 63273, 87691) >>

IirFilterCoeffsCoeffs ==
    << Lit(FALSE, 0, 482, 43431),
       Lit(FALSE, 0, 964, 86863),
       Lit(FALSE, 0, 482, 43431),
       Lit(TRUE, 1, 4859, 96008),
       Lit(FALSE, 0, 29614, 3430),
       Lit(FALSE, 1, 0, 0),
       Lit(FALSE, 2, 0, 0),
       Lit(FALSE, 1, 0, 0),
       Lit(TRUE, 1, 32091, 34340),
       Lit(FALSE, 0, 63273, 87691) >>

\* (variant) a guard macro of the file's own
IirFilterCoeffs_OwnGuard == "IIR_FILTER_COEFFS_FILE_H"

IirFilterCoeffs_GUARD == "IIR_FILTER_COEFFS_H"

IirFilterCoeffsH ==
    [ file |-> "iir_filter_coeffs.h",
      guard |-> IirFilterCoeffs_GUARD,
      sectionsMacro |-> "IIR_NUM_SECTIONS",
      stateMacro |-> "IIR_STATE_SIZE",
      numSections |-> IirFilterCoeffs_IIR_NUM_SECTIONS,
      stateSize |-> IirFilterCoeffs_IIR_STATE_SIZE,
      tableName |-> "iirCoeffs_DF2T",
      perSection |-> 5,
      init |-> IirFilterCoeffsCoeffs ]

ShippedFiles == {"filterdata.h", "iir_filter_coeffs.h"}

----------------------------------------------------------------------------
(* The template.  Every {{ placeholder }} is replaced by the value given   *)
(* for it; no placeholder is computed from another.                        *)

TemplateFile == "cmsis_header_template.h"

Template_GUARD == "IIR_FILTER_COEFFS_H"

Render(num_sections, state_size, coeffs_per_section, coefficients_array) ==
    [ file |-> TemplateFile,
      guard |-> Template_GUARD,
      sectionsMacro |-> "IIR_FILTER_SECTIONS",
      stateMacro |-> "IIR_FILTER_STATE_SIZE",
      numSections |-> num_sections,
      stateSize |-> state_size,
      tableName |-> "iirCoeffs",
      perSection |-> coeffs_per_section,
      init |-> coefficients_array ]

NoHeader == [file |-> "none"]

NoArgs == [num_sections |-> 0]

----------------------------------------------------------------------------
(* The translation unit.  #include of a header whose guard macro is        *)
(* already defined contributes nothing; otherwise the guard and the        *)
(* macros are defined and the array is laid out as C lays out              *)
(*   static const T name[SECTIONS * perSection] = { init };                *)
(* missing initialisers are zero; excess initialisers are a constraint     *)
(* violation, which the compiler reports as an error (pedantic) or warns   *)
(* about and drops; a second definition of the same name is an error.      *)

EmptyTU == [guards |-> {}, macros |-> {}, tables |-> <<>>, failed |-> FALSE]

\* the array's elements: the initialisers, then zeros, cut to the length
Layout(init, n) ==
    [i \in 1..n |-> IF i <= Len(init) THEN init[i] ELSE LitZero]

Defines(h) ==
    { [name |-> h.sectionsMacro, value |-> h.numSections],
      [name |-> h.stateMacro, value |-> h.stateSize] }

TableOf(h) ==
    [ name |-> h.tableName,
      file |-> h.file,
      sections |-> h.numSections,
      stateSize |-> h.stateSize,
      declLen |-> h.numSections * h.perSection,
      nInit |-> Len(h.init),
      values |-> Layout(h.init, h.numSections * h.perSection) ]

GuardOpen(t, h) == h.guard \notin t.guards

IncludeHeader(t, h, strict) ==
    IF ~GuardOpen(t, h) THEN t
    ELSE LET opened == [t EXCEPT !.guards = @ \cup {h.guard},
                                 !.macros = @ \cup Defines(h)]
             redefined == \E k \in 1..Len(t.tables) : t.tables[k].name = h.tableName
             excess == Len(h.init) > h.numSections * h.perSection
         IN  IF redefined \/ (excess /\ strict)
             THEN [opened EXCEPT !.failed = TRUE]
             ELSE [opened EXCEPT !.tables = Append(@, TableOf(h))]

\* section i (from 0) of a table: values 5i .. 5i+4 as b0, b1, b2, a1, a2
Section(values, i) ==
    [ b0 |-> values[5 * i + 1], b1 |-> values[5 * i + 2], b2 |-> values[5 * i + 3],
      a1 |-> values[5 * i + 4], a2 |-> values[5 * i + 5] ]

----------------------------------------------------------------------------
(* float32 values.  The run is modelled on the float32 values that are     *)
(* multiples of 2^-10 and small enough for their sums and products to be   *)
(* float32 values again, so float32 arithmetic is exact on them and is     *)
(* integer arithmetic on the count of 2^-10.  A product off that grid      *)
(* matches no arm of Mul, which stops the model checker.                   *)

Unit == 2^10

\* the float32 value of a literal (compile-time conversion of 0.5000000000f)
ToF32(l) ==
    CASE l.flo = 0 /\ (l.fhi * Unit) % Half = 0 ->
        (IF l.neg THEN -1 ELSE 1) * (l.ip * Unit + (l.fhi * Unit) \div Half)

Mul(c, v) ==
    CASE (c * v) % Unit = 0 -> (c * v) \div Unit

Zeros(n) == [i \in 1..n |-> 0]

\* one sample through sections i .. n-1 (direct form II transposed):
\*   y = b0*x + state[2i]
\*   state[2i]   = b1*x - a1*y + state[2i+1]
\*   state[2i+1] = b2*x - a2*y
\*   x = y
RECURSIVE Cascade(_, _, _, _, _)
Cascade(c, n, i, st, x) ==
    IF i >= n THEN [state |-> st, y |-> x]
    ELSE LET k == Section(c, i)
             y == Mul(k.b0, x) + st[2 * i + 1]
             s0 == Mul(k.b1, x) - Mul(k.a1, y) + st[2 * i + 2]
             s1 == Mul(k.b2, x) - Mul(k.a2, y)
         IN  Cascade(c, n, i + 1, [st EXCEPT ![2 * i + 1] = s0, ![2 * i + 2] = s1], y)

\* a whole block against a state buffer: the samples in order
RECURSIVE ProcessBlock(_, _, _, _)
ProcessBlock(c, n, st, input) ==
    IF input = <<>> THEN [state |-> st, output |-> <<>>]
    ELSE LET one == Cascade(c, n, 0, st, Head(input))
             rest == ProcessBlock(c, n, one.state, Tail(input))
         IN  [state |-> rest.state, output |-> <<one.y>> \o rest.output]

----------------------------------------------------------------------------
(* The values given for the template's placeholders.                       *)

LitHalf == Lit(FALSE, 0, 50000, 0)
LitOne == Lit(FALSE, 1, 0, 0)
LitTwo == Lit(FALSE, 2, 0, 0)

\* b = (0.5, 1, 0.5), a1 = -1, a2 = 0.5: stable
SecLow == <<LitHalf, LitOne, LitHalf, Lit(TRUE, 1, 0, 0), LitHalf>>
\* b = (1, 2, 1), a1 = 0.5, a2 = 0.5: stable
SecHigh == <<LitOne, LitTwo, LitOne, LitHalf, LitHalf>>
\* b = (1, 0, 0), a1 = 0, a2 = 1.5: a pole outside the unit circle
SecUnstable == <<LitOne, LitZero, LitZero, LitZero, Lit(FALSE, 1, 50000, 0)>>

SectionList == <<SecLow, SecHigh, SecUnstable>>

\* ns sections taken in turn from the list, starting at k, flattened
RECURSIVE CascadeLits(_, _)
CascadeLits(ns, k) ==
    IF ns = 0 THEN <<>>
    ELSE SectionList[(k % Len(SectionList)) + 1] \o CascadeLits(ns - 1, k + 1)

\* a list cut or extended (by 1.0) to n values
Resize(list, n) ==
    [i \in 1..n |-> IF i <= Len(list) THEN list[i] ELSE LitOne]

CoefficientArrays(ns, slack) ==
    { Resize(CascadeLits(ns, k), 5 * ns + d) : k \in 0..(Len(SectionList) - 1), d \in slack }

\* the values given for state_size: twice the sections, one more, one less
StateSizes(ns) == <<2 * ns, 2 * ns + 1, 2 * ns - 1>>

PerSection == {5, 6}

Streams == {"L", "R"}

Samples == {0, Unit}

AtStart == [s \in Streams |-> "start"]
NoInst == [s \in Streams |-> [numStages |-> 0, pState |-> s, ready |-> FALSE]]
NoneYet == [s \in Streams |-> 0]
NoSamples == [s \in Streams |-> <<>>]

----------------------------------------------------------------------------
(* The build.                                                              *)

Init ==
    /\ pedantic \in BOOLEAN
    /\ renderArgs = NoArgs
    /\ rendered = NoHeader
    /\ included = <<>>
    /\ tu = EmptyTU
    /\ coeffs = <<>>
    /\ inst = NoInst
    /\ iirState = NoSamples
    /\ beyond = NoSamples
    /\ pending = NoneYet
    /\ fed = NoSamples
    /\ out = NoSamples
    /\ blockAt = NoneYet
    /\ pc = AtStart

RenderTemplate ==
    /\ rendered = NoHeader
    /\ \E ns \in 1..MaxSections :
       \E z \in 1..3, cps \in PerSection, arr \in CoefficientArrays(ns, {-1, 0, 1}) :
          /\ renderArgs' = [num_sections |-> ns, state_size |-> StateSizes(ns)[z],
                            coeffs_per_section |-> cps, coefficients_array |-> arr]
          /\ rendered' = Render(ns, StateSizes(ns)[z], cps, arr)
    /\ UNCHANGED <<pedantic, included, tu>>
    /\ UNCHANGED runVars

Include(h) ==
    /\ ~tu.failed
    /\ Len(included) < MaxIncludes
    /\ included' = Append(included, h.file)
    /\ tu' = IncludeHeader(tu, h, pedantic)
    /\ UNCHANGED <<pedantic, renderArgs, rendered>>
    /\ UNCHANGED runVars

IncludeFilterdata == Include(FilterdataH)

IncludeIirFilterCoeffs == Include(IirFilterCoeffsH)

IncludeRendered ==
    /\ rendered # NoHeader
    /\ Include(rendered)

Next ==
    \/ RenderTemplate
    \/ IncludeFilterdata
    \/ IncludeIirFilterCoeffs
    \/ IncludeRendered

Spec == Init /\ [][Next]_vars

----------------------------------------------------------------------------
(* The run of the example code over a rendered header.  Each stream is one *)
(* copy of the example: its own iirState and iirFilter, the one table.     *)
(*   static T iirState[STATE_SIZE];        zero at program start           *)
(*   init_iir_filter()                     fills the instance              *)
(*   process_iir_filter(in, out, n)        n samples through the cascade   *)
(* Neither function takes a buffer length or returns a status.  The        *)
(* library call reads and writes 2 state values per stage from pState: a   *)
(* buffer shorter than that makes the access run into the memory after it  *)
(* (undefined behaviour: it lands there, or the access faults).            *)

Table == tu.tables[1]

\* (variant) a state buffer without static storage: it starts with what the
\* memory held
AutomaticStateBuffer(ss) == [i \in 1..ss |-> Unit]

\* static float32_t iirState[STATE_SIZE]: static storage starts as zeros
StaticStateBuffer(ss) == Zeros(ss)

\* the memory that follows a state buffer of ss values, as far as n stages reach
Spill(n, ss, junk) == [i \in 1..(IF 2 * n > ss THEN 2 * n - ss ELSE 0) |-> junk]

InitProc ==
    /\ pedantic = FALSE
    /\ included = <<TemplateFile>>
    /\ \E ns \in 1..MaxSections :
       \E z \in 1..3, arr \in CoefficientArrays(ns, {0}), junk \in Samples :
        LET ss == StateSizes(ns)[z] IN
          /\ renderArgs = [num_sections |-> ns, state_size |-> ss,
                           coeffs_per_section |-> 5, coefficients_array |-> arr]
          /\ rendered = Render(ns, ss, 5, arr)
          /\ tu = IncludeHeader(EmptyTU, rendered, pedantic)
          /\ coeffs = [i \in 1..Len(Table.values) |-> ToF32(Table.values[i])]
          /\ iirState = [s \in Streams |-> StaticStateBuffer(ss)]
          /\ beyond = [s \in Streams |-> Spill(ns, ss, junk)]
    /\ inst = NoInst
    /\ pending = NoneYet
    /\ fed = NoSamples
    /\ out = NoSamples
    /\ blockAt = NoneYet
    /\ pc = AtStart

\* (variant) every instance is given the one state buffer
init_shared_state(s) ==
    /\ pc[s] = "start"
    /\ inst' = [inst EXCEPT ![s] = [numStages |-> Table.sections, pState |-> "L", ready |-> TRUE]]
    /\ pc' = [pc EXCEPT ![s] = "idle"]
    /\ UNCHANGED <<coeffs, iirState, beyond, pending, fed, out, blockAt>>
    /\ UNCHANGED buildVars

\* init_iir_filter: arm_biquad_cascade_df2t_init_float32(&iirFilter, SECTIONS, coeffs, iirState)
init_iir_filter(s) ==
    /\ pc[s] = "start"
    /\ inst' = [inst EXCEPT ![s] = [numStages |-> Table.sections, pState |-> s, ready |-> TRUE]]
    /\ pc' = [pc EXCEPT ![s] = "idle"]
    /\ UNCHANGED <<coeffs, iirState, beyond, pending, fed, out, blockAt>>
    /\ UNCHANGED buildVars

\* (variant) every call starts from a cleared state buffer
process_cleared(s, limit) ==
    /\ pc[s] = "idle"
    /\ \E blockSize \in 1..(limit - Len(fed[s])) :
          pending' = [pending EXCEPT ![s] = blockSize]
    /\ blockAt' = [blockAt EXCEPT ![s] = Len(fed[s])]
    /\ iirState' = [iirState EXCEPT ![s] = Zeros(Len(@))]
    /\ pc' = [pc EXCEPT ![s] = "run"]
    /\ UNCHANGED <<coeffs, inst, beyond, fed, out>>
    /\ UNCHANGED buildVars

\* process_iir_filter(input, output, blockSize): the call is entered.  A call
\* with blockSize 0 passes no sample through and changes nothing: it is a
\* stuttering step.
process_iir_filter(s, limit) ==
    /\ pc[s] = "idle"
    /\ \E blockSize \in 1..(limit - Len(fed[s])) :
          pending' = [pending EXCEPT ![s] = blockSize]
    /\ blockAt' = [blockAt EXCEPT ![s] = Len(fed[s])]
    /\ pc' = [pc EXCEPT ![s] = "run"]
    /\ UNCHANGED <<coeffs, inst, iirState, beyond, fed, out>>
    /\ UNCHANGED buildVars

\* the memory one sample's pass leaves, from the memory it finds
SamplePass(c, n, memory, x) == Cascade(c, n, 0, memory, x)

\* one sample of the block through every stage; x is the value the input
\* buffer holds at the position read
ProcessSample(s) ==
    /\ pc[s] = "run"
    /\ pending[s] > 0
    /\ \E x \in Samples :
         LET p == inst[s].pState
             ss == Len(iirState[p])
             r == SamplePass(coeffs, inst[s].numStages, iirState[p] \o beyond[p], x)
         IN  /\ iirState' = [iirState EXCEPT ![p] = SubSeq(r.state, 1, ss)]
             /\ beyond' = [beyond EXCEPT ![p] = SubSeq(r.state, ss + 1, Len(r.state))]
             /\ out' = [out EXCEPT ![s] = Append(@, r.y)]
             /\ fed' = [fed EXCEPT ![s] = Append(@, x)]
    /\ pending' = [pending EXCEPT ![s] = @ - 1]
    /\ UNCHANGED <<coeffs, inst, blockAt, pc>>
    /\ UNCHANGED buildVars

\* the out-of-bounds access of a short state buffer faults
Fault(s) ==
    /\ pc[s] = "run"
    /\ pending[s] > 0
    /\ Len(iirState[inst[s].pState]) < 2 * inst[s].numStages
    /\ pc' = [pc EXCEPT ![s] = "fault"]
    /\ UNCHANGED <<coeffs, inst, iirState, beyond, pending, fed, out, blockAt>>
    /\ UNCHANGED buildVars

\* the block is done: process_iir_filter returns (void)
Return(s) ==
    /\ pc[s] = "run"
    /\ pending[s] = 0
    /\ pc' = [pc EXCEPT ![s] = "idle"]
    /\ UNCHANGED <<coeffs, inst, iirState, beyond, pending, fed, out, blockAt>>
    /\ UNCHANGED buildVars

Step(s, limit) ==
    \/ init_iir_filter(s)
    \/ process_iir_filter(s, limit)
    \/ ProcessSample(s)
    \/ Fault(s)
    \/ Return(s)

\* the example as written: one instance, one stream
NextProc == Step("L", MaxSamples)

SpecProc == InitProc /\ [][NextProc]_vars

\* two copies of the example over the one table, their steps interleaved
NextShare == \E s \in Streams : Step(s, MaxShared)

SpecShare == InitProc /\ [][NextShare]_vars

----------------------------------------------------------------------------
(* Properties of the build (Spec).                                         *)

Tables == {tu.tables[k] : k \in 1..Len(tu.tables)}

ShippedTables == {t \in Tables : t.file \in ShippedFiles}

MacroValues(name) == {m.value : m \in {d \in tu.macros : d.name = name}}

ShippedInit(file) ==
    IF file = "filterdata.h" THEN FilterdataCoeffs ELSE IirFilterCoeffsCoeffs

\* C1: a shipped header's table holds exactly IIR_NUM_SECTIONS * 5 values: the
\* declared length and the number of initialisers are both 5 times the section
\* count, nothing is padded or dropped, and section i is the values 5i .. 5i+4
\* in the order b0, b1, b2, a1, a2.
C1_ShippedTableLayout ==
    \A t \in ShippedTables :
        /\ t.declLen = 5 * t.sections
        /\ t.nInit = 5 * t.sections
        /\ Len(t.values) = 5 * t.sections
        /\ \A i \in 0..(t.sections - 1) :
              Section(t.values, i) =
                  [ b0 |-> ShippedInit(t.file)[5 * i + 1],
                    b1 |-> ShippedInit(t.file)[5 * i + 2],
                    b2 |-> ShippedInit(t.file)[5 * i + 3],
                    a1 |-> ShippedInit(t.file)[5 * i + 4],
                    a2 |-> ShippedInit(t.file)[5 * i + 5] ]

C1_Witness ==
    \E t \in ShippedTables : t.file = "filterdata.h" /\ t.sections = 2

\* C2 as stated: the state-buffer length published with every table, shipped
\* or rendered from the template, is twice the section count.
C2_StateSizeAlwaysTwiceSections ==
    \A t \in Tables : t.stateSize = 2 * t.sections

\* C2 as amended: in the shipped headers IIR_STATE_SIZE is twice
\* IIR_NUM_SECTIONS; a rendered header publishes as IIR_FILTER_STATE_SIZE and
\* IIR_FILTER_SECTIONS the two values given for state_size and num_sections,
\* whatever they are.
C2_StateSizeAsGiven ==
    /\ \A t \in ShippedTables :
          /\ MacroValues("IIR_STATE_SIZE") = {2 * t.sections}
          /\ MacroValues("IIR_NUM_SECTIONS") = {t.sections}
    /\ \A t \in Tables \ ShippedTables :
          /\ MacroValues("IIR_FILTER_STATE_SIZE") = {renderArgs.state_size}
          /\ MacroValues("IIR_FILTER_SECTIONS") = {renderArgs.num_sections}

C2_Witness ==
    \E t \in Tables \ ShippedTables :
        /\ MacroValues("IIR_FILTER_STATE_SIZE") = {3}
        /\ MacroValues("IIR_FILTER_SECTIONS") = {2}

\* C3: every section of a shipped table is stable on the literals: with
\* (a1, a2) the 4th and 5th value of its group, |a2| < 1 and |a1| < 1 + a2.
C3_ShippedSectionsStable ==
    \A t \in ShippedTables :
        \A i \in 0..(t.sections - 1) :
            IsStable(Section(t.values, i).a1, Section(t.values, i).a2)

C3_Witness ==
    \E t \in ShippedTables : t.file = "iir_filter_coeffs.h" /\ Len(t.values) = 10

\* C5 as stated: a coefficient list whose length is not 5 times the section
\* count is rejected and yields no table.
C5_MalformedLayoutRejected ==
    \A t \in Tables : t.nInit = 5 * t.sections

\* C10: the headers share one include guard, so once a shipped header has been
\* included first, any further include contributes nothing: the build has not
\* failed, exactly one table is defined, and it is the first header's table.
C10_FirstIncludeWins ==
    (Len(included) >= 2 /\ included[1] \in ShippedFiles) =>
        /\ ~tu.failed
        /\ Len(tu.tables) = 1
        /\ tu.tables[1].file = included[1]
        /\ tu.tables[1].name = "iirCoeffs_DF2T"
        /\ tu.tables[1].values = ShippedInit(included[1])
        /\ tu.guards = {"IIR_FILTER_COEFFS_H"}

C10_Witness ==
    /\ Len(included) >= 2
    /\ included[1] = "iir_filter_coeffs.h"
    /\ included[2] = "filterdata.h"

----------------------------------------------------------------------------
(* Properties of the run (SpecProc, SpecShare).                            *)

\* the table as float32 values, as the build laid it out
InitialCoeffs == [i \in 1..Len(Table.values) |-> ToF32(Table.values[i])]

\* the stream is initialised over a state buffer of 2 values per section
Sized(s) == inst[s].ready /\ Len(iirState[s]) = 2 * inst[s].numStages

\* every section of the table in use satisfies the stability invariant
ValidCascade ==
    \A i \in 0..(Table.sections - 1) :
        IsStable(Section(Table.values, i).a1, Section(Table.values, i).a2)

AllZero(seq) == \A i \in 1..Len(seq) : seq[i] = 0

\* C4: block-split equivalence.  Whatever blocks the samples consumed so far
\* came in, the outputs written and the state buffer are those of one call over
\* the whole sequence; and from the state left by any prefix, two consecutive
\* blocks give the output and the final state of the one block they make up.
C4_BlockSplitEquivalence ==
    \A s \in Streams :
        Sized(s) =>
            LET n == inst[s].numStages
                len == Len(fed[s])
                whole == ProcessBlock(coeffs, n, Zeros(2 * n), fed[s])
            IN  /\ out[s] = whole.output
                /\ iirState[s] = whole.state
                /\ \A j \in 0..len : \A k \in j..len :
                      LET before == ProcessBlock(coeffs, n, Zeros(2 * n), SubSeq(fed[s], 1, j))
                          first == ProcessBlock(coeffs, n, before.state, SubSeq(fed[s], j + 1, k))
                          second == ProcessBlock(coeffs, n, first.state, SubSeq(fed[s], k + 1, len))
                          both == ProcessBlock(coeffs, n, before.state, SubSeq(fed[s], j + 1, len))
                      IN  /\ first.output \o second.output = both.output
                          /\ second.state = both.state

\* two blocks of two samples done, over a valid two-section cascade, the state
\* buffer not zero where the second block began
C4_Witness ==
    /\ ValidCascade
    /\ Sized("L")
    /\ inst["L"].numStages = 2
    /\ pc["L"] = "idle"
    /\ blockAt["L"] = 2
    /\ Len(fed["L"]) = 4
    /\ fed["L"][1] = Unit
    /\ ~AllZero(iirState["L"])

\* C6 as stated: a table with a section that violates the stability invariant
\* is rejected, so no filter is ever initialised over one.
C6_UnstableSectionRejected ==
    \A s \in Streams : inst[s].ready => ValidCascade

\* C7 as stated: with a state buffer whose length differs from 2 * numSections,
\* process fails before any sample: no output sample, the state buffer as it was.
C7_MismatchFailsBeforeOutput ==
    \A s \in Streams :
        (inst[s].ready /\ Len(iirState[s]) # 2 * inst[s].numStages) =>
            /\ out[s] = <<>>
            /\ AllZero(iirState[s])

\* C8: zero-input steady state.  From the zero state buffer, as long as every
\* input sample is zero every output sample is zero and the state buffer is
\* still all zero, over any number of blocks.
C8_ZeroInputSteadyState ==
    \A s \in Streams :
        (Sized(s) /\ AllZero(fed[s])) =>
            /\ Len(out[s]) = Len(fed[s])
            /\ AllZero(out[s])
            /\ AllZero(iirState[s])

\* three zero samples in two blocks through a valid two-section cascade
C8_Witness ==
    /\ ValidCascade
    /\ Sized("L")
    /\ inst["L"].numStages = 2
    /\ pc["L"] = "idle"
    /\ blockAt["L"] = 2
    /\ fed["L"] = <<0, 0, 0>>

\* C9: the coefficient table is never modified, and with two streams over it,
\* each with its own state buffer, every interleaving leaves each stream with
\* the outputs and the state it has when it runs alone over the same input.
C9_SharedTableIndependentStreams ==
    /\ coeffs = InitialCoeffs
    /\ \A s \in Streams :
          Sized(s) =>
              LET alone == ProcessBlock(InitialCoeffs, Table.sections,
                                        Zeros(2 * Table.sections), fed[s])
              IN  /\ out[s] = alone.output
                  /\ iirState[s] = alone.state

\* both streams in the middle of a block over a valid cascade, on different input
C9_Witness ==
    /\ ValidCascade
    /\ Sized("L") /\ Sized("R")
    /\ pc["L"] = "run" /\ pc["R"] = "run"
    /\ pending["L"] = 1 /\ pending["R"] = 1
    /\ fed["L"] = <<Unit>> /\ fed["R"] = <<0>>
    /\ out["L"] # out["R"]

====
